---- MODULE Spec2Model ----
(***************************************************************************)
(* Model of list_check.py: the rolling-window rate limiter, the catalogue  *)
(* loader, the filter-tree matcher, the per-list worker and main's thread  *)
(* pool and result collection.                                             *)
(*                                                                         *)
(* A Python str is a sequence of one-character strings, so that strip()    *)
(* and membership tests are computed and not assumed.  A JSON value is a   *)
(* tagged record: null, str, list or dict.                                 *)
(***************************************************************************)
EXTENDS Integers, Sequences, FiniteSets, TLC

\* ------------------------------------------------------------------------
\* Bounds of the model
\* ------------------------------------------------------------------------
\* Depth of nested call frames the interpreter allows before RecursionError
\* (sys.getrecursionlimit(), scaled down).
RecursionLimit == 3
\* Lines of the property file and characters per line drawn by InitLoad.
MaxLines == 3
MaxLineLen == 2
\* Lists of the batch checked under Spec.
NumObjects == 2
\* Threads calling wait_for_rate_slot, and calls beyond the admissions already
\* recorded, under SpecRate.
NumCallers == 2
MaxExtraCalls == 3
\* Sub-branches per branch followed when a filter tree is read by paths.
MaxFanout == 2
\* Lists still queued at the end of a long batch, under SpecPool.
NumPoolObjects == 6

\* ------------------------------------------------------------------------
\* Program constants
\* ------------------------------------------------------------------------
\* (now - request_timestamps[0]) > 10
WindowSeconds == 10
\* len(request_timestamps) < 100
MaxRequests == 100
max_workers == 5

\* ------------------------------------------------------------------------
\* Python str values
\* ------------------------------------------------------------------------
SPACE == " "
Chars == {SPACE, "a", "b"}
EmptyStr == << >>
PROPERTY == <<"P", "R", "O", "P", "E", "R", "T", "Y">>
OTHERTYPE == <<"E", "V", "E", "N", "T">>
NameA == <<"a">>
NameB == <<"b">>
NameAB == <<"a", "b">>

\* ------------------------------------------------------------------------
\* JSON values, as resp.json() returns them
\* ------------------------------------------------------------------------
JNull == [t |-> "null"]
JStr(s) == [t |-> "str", v |-> s]
JList(items) == [t |-> "list", items |-> items]
JDict(kv) == [t |-> "dict", kv |-> kv]
EmptyDict == JDict(<< >>)
NoException == "none"

\* Python truthiness: None, "", [] and {} are falsy.
Truthy(v) ==
    CASE v.t = "null" -> FALSE
      [] v.t = "str"  -> v.v # << >>
      [] v.t = "list" -> v.items # << >>
      [] v.t = "dict" -> DOMAIN v.kv # {}

\* dict.get(key, default) on a dict value.
DictGet(d, key, default) == IF key \in DOMAIN d.kv THEN d.kv[key] ELSE default

\* obj.get(...) on a value that is no dict raises AttributeError.
GetExc(v) == IF v.t = "dict" THEN NoException ELSE "AttributeError"

\* "for x in v": the items of a list, the characters of a str, the keys of a
\* dict (each a non-empty str whose content is never read); None is not
\* iterable.
IterExc(v) == IF v.t = "null" THEN "TypeError" ELSE NoException
IterItems(v) ==
    CASE v.t = "list" -> v.items
      [] v.t = "str"  -> [i \in 1..Len(v.v) |-> JStr(<<v.v[i]>>)]
      [] v.t = "dict" -> [i \in 1..Cardinality(DOMAIN v.kv) |-> JStr(<<"k">>)]
      [] OTHER        -> << >>

\* "x in a_set" hashes x: a list or a dict is unhashable (TypeError); None or
\* a str that is no member gives False.
Hashable(v) == v.t \in {"null", "str"}

\* Mutant of InSet: the membership test accepts every name.
InSet_AnyName(v, S) == v.t = "str"

\* prop_name in properties_to_check
InSet(v, S) == v.t = "str" /\ v.v \in S

\* ------------------------------------------------------------------------
\* 4) Extract properties from the JSON
\* ------------------------------------------------------------------------
\* A call returns [exc, found]: the exception it raised (NoException when it
\* returned) and the accumulator found_props as the call left it.
Returned(found) == [exc |-> NoException, found |-> found]
Raised(exc, found) == [exc |-> exc, found |-> found]

\* Mutant of IsPropertyFilter: the filterType test is dropped.
IsPropertyFilter_AnyType(f) == TRUE

\* f.get("filterType") == "PROPERTY"
IsPropertyFilter(f) ==
    LET ft == DictGet(f, "filterType", JNull)
    IN  ft.t = "str" /\ ft.v = PROPERTY

RECURSIVE ScanFilters(_, _, _)
\* for f in filters: ... found_props.add(prop_name)
ScanFilters(items, found, properties_to_check) ==
    IF items = << >> THEN Returned(found)
    ELSE LET f == Head(items) IN
         IF GetExc(f) # NoException THEN Raised(GetExc(f), found)
         ELSE IF ~IsPropertyFilter(f)
              THEN ScanFilters(Tail(items), found, properties_to_check)
         ELSE LET prop_name == DictGet(f, "property", JStr(EmptyStr)) IN
              IF ~Hashable(prop_name) THEN Raised("TypeError", found)
              ELSE ScanFilters(Tail(items),
                               IF InSet(prop_name, properties_to_check)
                               THEN found \cup {prop_name.v} ELSE found,
                               properties_to_check)

RECURSIVE traverse_filter_branches(_, _, _, _)
RECURSIVE TraverseSubs(_, _, _, _)

\* for sub in branch.get("filterBranches", []): traverse_filter_branches(sub, ...)
TraverseSubs(subs, found, properties_to_check, depth) ==
    IF subs = << >> THEN Returned(found)
    ELSE LET r == traverse_filter_branches(Head(subs), found,
                                           properties_to_check, depth)
         IN  IF r.exc # NoException THEN r
             ELSE TraverseSubs(Tail(subs), r.found, properties_to_check, depth)

\* depth is the number of traverse_filter_branches frames on the stack; the
\* interpreter raises RecursionError past its limit.
traverse_filter_branches(branch, found_props, properties_to_check, depth) ==
    IF depth > RecursionLimit THEN Raised("RecursionError", found_props)
    ELSE IF ~Truthy(branch) THEN Returned(found_props)
    ELSE IF GetExc(branch) # NoException THEN Raised(GetExc(branch), found_props)
    ELSE LET filters == DictGet(branch, "filters", JList(<< >>)) IN
         IF IterExc(filters) # NoException THEN Raised(IterExc(filters), found_props)
         ELSE LET r == ScanFilters(IterItems(filters), found_props,
                                   properties_to_check) IN
              IF r.exc # NoException THEN r
              ELSE LET subs == DictGet(branch, "filterBranches", JList(<< >>)) IN
                   IF IterExc(subs) # NoException THEN Raised(IterExc(subs), r.found)
                   ELSE TraverseSubs(IterItems(subs), r.found,
                                     properties_to_check, depth + 1)

check_list_properties(response_json, properties_to_check) ==
    IF GetExc(response_json) # NoException THEN Raised(GetExc(response_json), {})
    ELSE LET list_obj == DictGet(response_json, "list", EmptyDict) IN
         IF GetExc(list_obj) # NoException THEN Raised(GetExc(list_obj), {})
         ELSE LET top_branch == DictGet(list_obj, "filterBranch", EmptyDict)
              IN  traverse_filter_branches(top_branch, {}, properties_to_check, 1)

\* row_values = [("TRUE" if p in found_props else "") for p in property_list]
RowValues(found_props, property_list) ==
    [k \in 1..Len(property_list) |->
        IF property_list[k] \in found_props THEN "TRUE" ELSE ""]

\* Mutant of ErrorRow: one ERROR cell whatever the catalogue.
ErrorRow_OneCell(property_list) == <<"ERROR">>

\* row_values = ["ERROR"] * len(property_list)
ErrorRow(property_list) == [k \in 1..Len(property_list) |-> "ERROR"]

\* ------------------------------------------------------------------------
\* 2) Load helper functions
\* ------------------------------------------------------------------------
RECURSIVE LStrip(_)
LStrip(s) == IF s # << >> /\ Head(s) = SPACE THEN LStrip(Tail(s)) ELSE s

RECURSIVE RStrip(_)
RStrip(s) ==
    IF s # << >> /\ s[Len(s)] = SPACE THEN RStrip(SubSeq(s, 1, Len(s) - 1)) ELSE s

\* str.strip()
Strip(s) == RStrip(LStrip(s))

RECURSIVE LoadLines(_, _, _)
\* for line in txtfile: p = line.strip(); if p: append to the list, add to the set
LoadLines(lines, prop_list, prop_set) ==
    IF lines = << >> THEN [prop_list |-> prop_list, prop_set |-> prop_set]
    ELSE LET p == Strip(Head(lines)) IN
         IF p # EmptyStr
         THEN LoadLines(Tail(lines), Append(prop_list, p), prop_set \cup {p})
         ELSE LoadLines(Tail(lines), prop_list, prop_set)

load_properties(lines) == LoadLines(lines, << >>, {})

\* ------------------------------------------------------------------------
\* Documents the server may return (bounded input families)
\* ------------------------------------------------------------------------
\* An optional dict entry is a sequence of zero or one value.
Absent == << >>
Present(v) == <<v>>

Leaf(filterType, property) ==
    JDict([filterType |-> JStr(filterType), property |-> JStr(property)])

BranchNode(filters, filterBranches) ==
    JDict([k \in (IF filters = Absent THEN {} ELSE {"filters"})
                 \cup (IF filterBranches = Absent THEN {} ELSE {"filterBranches"})
           |-> IF k = "filters" THEN filters[1] ELSE filterBranches[1]])

DocOf(top_branch) == JDict([list |-> JDict([filterBranch |-> top_branch])])

Leaves ==
    { Leaf(PROPERTY, NameA), Leaf(PROPERTY, NameB), Leaf(OTHERTYPE, NameA),
      JDict([filterType |-> JStr(PROPERTY)]) }

FilterOpts ==
    { Absent, Present(JList(<< >>)) }
    \cup { Present(JList(<<l>>)) : l \in Leaves }
    \cup { Present(JList(<<Leaf(OTHERTYPE, NameB), Leaf(PROPERTY, NameA)>>)) }

\* Trees by nesting depth: leaves only, one level of sub-branches, two levels.
Trees0 == { BranchNode(f, b) : f \in FilterOpts, b \in {Absent, Present(JList(<< >>))} }
Trees0Small ==
    { BranchNode(Present(JList(<<l>>)), Absent) :
        l \in {Leaf(PROPERTY, NameA), Leaf(PROPERTY, NameB), Leaf(OTHERTYPE, NameA)} }
Trees1 ==
    { BranchNode(f, Present(JList(<<c>>))) :
        f \in {Absent, Present(JList(<<Leaf(OTHERTYPE, NameA)>>))},
        c \in Trees0 \cup {JNull} }
    \cup { BranchNode(Absent, Present(JList(<<c1, c2>>))) :
             c1 \in Trees0Small \cup {JNull}, c2 \in Trees0Small }
Trees2 == { BranchNode(Absent, Present(JList(<<c>>))) : c \in Trees1 }
WellFormedTrees == Trees0 \cup Trees1 \cup Trees2

RECURSIVE Chain(_)
\* A tree of n nested branches with a PROPERTY leaf for "a" at the bottom.
Chain(n) ==
    IF n <= 1 THEN BranchNode(Present(JList(<<Leaf(PROPERTY, NameA)>>)), Absent)
    ELSE BranchNode(Absent, Present(JList(<<Chain(n - 1)>>)))

\* Documents whose filter structure is missing, null or empty at some level.
EmptyStructureDocs ==
    { EmptyDict,                                   \* no "list"
      JDict([list |-> JNull]),                     \* "list": null
      JDict([list |-> EmptyDict]),                 \* no "filterBranch"
      DocOf(JNull),                                \* "filterBranch": null
      DocOf(EmptyDict),                            \* "filterBranch": {}
      DocOf(BranchNode(Present(JNull), Absent)),   \* "filters": null
      DocOf(BranchNode(Absent, Present(JNull))),   \* "filterBranches": null
      DocOf(BranchNode(Present(JList(<<Leaf(PROPERTY, NameB)>>)),
                       Present(JList(<<JNull, Chain(1)>>)))),  \* a null child
      DocOf(BranchNode(Present(JNull),
                       Present(JList(<<Chain(1)>>)))) }

\* Documents of an unexpected shape.
OddShapeDocs ==
    { JList(<< >>),                                               \* body is a list
      JDict([list |-> JStr(NameA)]),                              \* "list" is a str
      DocOf(JList(<<Chain(1)>>)),                                 \* branch is a list
      DocOf(BranchNode(Present(EmptyDict), Absent)),              \* "filters": {}
      DocOf(BranchNode(Present(JDict([x |-> JNull])), Absent)),   \* "filters" a dict
      DocOf(BranchNode(Present(JList(<<JNull>>)), Absent)),       \* a null filter
      DocOf(BranchNode(Present(JList(<<JDict([filterType |-> JStr(PROPERTY),
                                               property |-> JList(<< >>)])>>)),
                       Absent)),                                  \* unhashable name
      DocOf(BranchNode(Absent, Present(JStr(NameA)))) }           \* branches a str

\* A tree nested one level deeper than the interpreter's recursion limit.
DeepDoc == DocOf(Chain(RecursionLimit + 1))

\* ------------------------------------------------------------------------
\* Fetch outcomes: what requests.get does for one list
\* ------------------------------------------------------------------------
TransportFailure == [kind |-> "transport", status |-> 0, doc |-> JNull]
ApiFailure(status) == [kind |-> "api", status |-> status, doc |-> JNull]
Success(doc) == [kind |-> "ok", status |-> 200, doc |-> doc]

Failures == {TransportFailure, ApiFailure(404), ApiFailure(500)}

\* ------------------------------------------------------------------------
\* State
\* ------------------------------------------------------------------------
VARIABLES
    property_file,      \* lines of PROPERTIES_TXT
    lists_data,         \* load_list_ids(LISTS_CSV): sequence of items
    outcomes,           \* what the server may answer to a GET
    clock,              \* time.time()
    request_timestamps, \* times of recent requests
    rate_lock,          \* holder of rate_lock, 0 when free
    now,                \* wait_for_rate_slot's local now, per task
    admitted,           \* every timestamp wait_for_rate_slot has recorded
    attempts,           \* per task: admissions recorded and GETs issued so far
    property_list,
    property_set,
    header,             \* header row of CHECKED_LISTS_CSV, << >> before it is written
    main_pc,            \* main's position
    submitted,          \* len(futures)
    pc,                 \* position of the task of each list
    resp,               \* per task: the outcome of requests.get
    result,             \* per task: the future's state
    yielded,            \* futures as_completed has handed to main, in order
    cur,                \* the result main is about to write
    write_lock,         \* TRUE while main holds write_lock
    matrix,             \* data rows of CHECKED_LISTS_CSV
    log_lock,           \* holder of log_lock, 0 when free
    log_file            \* rows appended to LOG_CSV

vars == << property_file, lists_data, outcomes, clock, request_timestamps,
           rate_lock, now, admitted, attempts, property_list, property_set,
           header, main_pc, submitted, pc, resp, result, yielded, cur,
           write_lock, matrix, log_lock, log_file >>

inputVars == << property_file, lists_data, outcomes >>
rateVars == << request_timestamps, rate_lock, now, admitted >>
catalogueVars == << property_list, property_set, header >>
mainVars == << main_pc, submitted, yielded, cur, write_lock, matrix >>
logVars == << log_lock, log_file >>

Tasks == DOMAIN pc
NoResponse == [kind |-> "none", status |-> 0, doc |-> JNull]
Pending == [kind |-> "pending"]
NoRow == << >>
NoAttempt == [admissions |-> 0, gets |-> 0]

\* The instants at which the clock is sampled: the start, exactly one window
\* later, just past one window, just past two.
Instants == {0, WindowSeconds, WindowSeconds + 1, 2 * WindowSeconds + 1}

Item(i) == [name |-> i, listId |-> 100 + i]

\* All sequences of at most n elements of S.
SeqsUpTo(S, n) == UNION { [1..k -> S] : k \in 0..n }

\* ------------------------------------------------------------------------
\* 1) Rate limiting
\* ------------------------------------------------------------------------
\* Mutant of Evict: old timestamps are never removed.
Evict_Never(ts, t) == ts

\* Mutant of Evict: "if" in place of "while", at most one timestamp is popped.
Evict_OnlyHead(ts, t) ==
    IF ts # << >> /\ (t - Head(ts)) > WindowSeconds THEN Tail(ts) ELSE ts

\* while request_timestamps and (now - request_timestamps[0]) > 10: pop(0)
\* The loop pops the head as long as the head has expired: what is left is
\* the list from its first entry that has not expired on.
Evict(ts, t) ==
    LET fresh == { k \in 1..Len(ts) : ~((t - ts[k]) > WindowSeconds) }
        first == IF fresh = {} THEN Len(ts) + 1
                 ELSE CHOOSE k \in fresh : \A j \in fresh : k <= j
    IN  SubSeq(ts, first, Len(ts))

\* Mutant of HasCapacity: an off-by-one in the quota test.
HasCapacity_OffByOne(ts) == Len(ts) <= MaxRequests

\* if len(request_timestamps) < 100
HasCapacity(ts) == Len(ts) < MaxRequests

\* Mutant of RateLockFree: the lock excludes nobody.
RateLockFree_Ignored == TRUE

\* rate_lock can be acquired.
RateLockFree == rate_lock = 0

\* "with rate_lock:" entered, on the first pass or after time.sleep(0.1);
\* now = time.time()
RateLock(i) ==
    /\ pc[i] \in {"rate_wait", "rate_sleep"}
    /\ RateLockFree
    /\ rate_lock' = i
    /\ now' = [now EXCEPT ![i] = clock]
    /\ pc' = [pc EXCEPT ![i] = "rate_cs"]
    /\ UNCHANGED << inputVars, attempts, clock, request_timestamps, admitted,
                    catalogueVars, mainVars, resp, result, logVars >>

\* The body of the critical section: evict, then append and return, or leave
\* the lock and sleep.
RateCritical(i) ==
    /\ pc[i] = "rate_cs"
    /\ LET kept == Evict(request_timestamps, now[i]) IN
       IF HasCapacity(kept)
       THEN /\ request_timestamps' = Append(kept, now[i])
            /\ admitted' = Append(admitted, now[i])
            /\ attempts' = [attempts EXCEPT ![i].admissions = @ + 1]
            /\ pc' = [pc EXCEPT ![i] = "get"]
       ELSE /\ request_timestamps' = kept
            /\ admitted' = admitted
            /\ attempts' = attempts
            /\ pc' = [pc EXCEPT ![i] = "rate_sleep"]
    /\ rate_lock' = 0
    /\ now' = [now EXCEPT ![i] = 0]
    /\ UNCHANGED << inputVars, clock, catalogueVars, mainVars, resp, result,
                    logVars >>

\* Time passes.
Tick ==
    /\ \E t \in Instants : t > clock /\ clock' = t
    /\ UNCHANGED << inputVars, attempts, rateVars, catalogueVars, mainVars, pc,
                    resp, result, logVars >>

\* ------------------------------------------------------------------------
\* 5) The worker function for each list
\* ------------------------------------------------------------------------
FutureValue(item, row_values, error_msg) ==
    [kind |-> "value", list_name |-> item.name, list_id |-> item.listId,
     row_values |-> row_values, error_msg |-> error_msg]
FutureException(exc) == [kind |-> "exception", exc |-> exc]

\* Mutant of CheckOk: the accumulator of found properties is shared between
\* the calls, so a call also reports what earlier calls have found.
CheckOk_SharedAccumulator(item, data, prop_list, prop_set) ==
    LET r == check_list_properties(data, prop_set)
        earlier == { prop_list[k] : k \in
                       { n \in DOMAIN prop_list :
                           \E j \in Tasks : /\ result[j].kind = "value"
                                            /\ result[j].row_values[n] = "TRUE" } }
    IN  IF r.exc # NoException THEN FutureException(r.exc)
        ELSE FutureValue(item, RowValues(r.found \cup earlier, prop_list), "None")

\* The "if resp.ok:" branch: what the call leaves in its future.
CheckOk(item, data, prop_list, prop_set) ==
    LET r == check_list_properties(data, prop_set) IN
    IF r.exc # NoException THEN FutureException(r.exc)
    ELSE FutureValue(item, RowValues(r.found, prop_list), "None")

\* The two failure branches, after log_error has returned.
CheckFailed(item, prop_list, response) ==
    FutureValue(item, ErrorRow(prop_list),
                IF response.kind = "api" THEN "API error" ELSE "RequestException")

\* Mutant of StatusCodeArg: every error is logged with code 0.
StatusCodeArg_AlwaysZero(response) == 0

\* The status_code argument of log_error: resp.status_code, or 0 in the
\* except branch.
StatusCodeArg(response) == IF response.kind = "api" THEN response.status ELSE 0

\* writer.writerow([now, list_name, list_id, status_code, error_message])
LogRow(item, status_code, error_msg) ==
    [list_name |-> item.name, list_id |-> item.listId,
     status_code |-> status_code, error_msg |-> error_msg]

\* Mutant of AppendLog: the row is not written.
AppendLog_Lost(rows, row) == rows

\* open(LOG_CSV, mode="a") ... writer.writerow(...)
AppendLog(rows, row) == Append(rows, row)

Running == { j \in Tasks : pc[j] \notin {"unsubmitted", "queued", "done"} }

\* Mutant of PoolHasIdleThread: the executor starts a thread for every item.
PoolHasIdleThread_Unbounded == TRUE

\* ThreadPoolExecutor(max_workers=5): a thread is free to take an item.
PoolHasIdleThread == Cardinality(Running) < max_workers

\* A pool thread takes the next work item off the executor's queue.
WorkerStart(i) ==
    /\ pc[i] = "queued"
    /\ \A j \in Tasks : j < i => pc[j] \notin {"unsubmitted", "queued"}
    /\ PoolHasIdleThread
    /\ pc' = [pc EXCEPT ![i] = "rate_wait"]
    /\ UNCHANGED << inputVars, attempts, clock, rateVars, catalogueVars,
                    mainVars, resp, result, logVars >>

\* requests.get returns a 2xx response: parse, match, build the row, return.
FetchOk(i) ==
    /\ pc[i] = "get"
    /\ \E o \in outcomes :
         /\ o.kind = "ok"
         /\ resp' = [resp EXCEPT ![i] = o]
         /\ result' = [result EXCEPT
                         ![i] = CheckOk(lists_data[i], o.doc, property_list,
                                        property_set)]
    /\ attempts' = [attempts EXCEPT ![i].gets = @ + 1]
    /\ pc' = [pc EXCEPT ![i] = "done"]
    /\ UNCHANGED << inputVars, clock, rateVars, catalogueVars, mainVars,
                    logVars >>

\* Mutant of AfterFailedFetch: a failed GET is issued again.
AfterFailedFetch_Retry == "get"

\* Where a call goes after a failed GET: into log_error, never back to the GET.
AfterFailedFetch == "log_wait"

\* Mutant of ResultAtFailure: the ERROR row is handed over before log_error.
ResultAtFailure_Early(item, prop_list, response) ==
    CheckFailed(item, prop_list, response)

\* The future of a call whose GET has just failed: still pending, the return
\* statement comes after log_error.
ResultAtFailure(item, prop_list, response) == Pending

\* requests.get returns a non-2xx response: on to log_error.
FetchApiError(i) ==
    /\ pc[i] = "get"
    /\ \E o \in outcomes :
         /\ o.kind = "api"
         /\ resp' = [resp EXCEPT ![i] = o]
         /\ result' = [result EXCEPT
                         ![i] = ResultAtFailure(lists_data[i], property_list, o)]
    /\ attempts' = [attempts EXCEPT ![i].gets = @ + 1]
    /\ pc' = [pc EXCEPT ![i] = AfterFailedFetch]
    /\ UNCHANGED << inputVars, clock, rateVars, catalogueVars, mainVars,
                    logVars >>

\* requests.get raises RequestException: on to log_error.
FetchTransportError(i) ==
    /\ pc[i] = "get"
    /\ \E o \in outcomes :
         /\ o.kind = "transport"
         /\ resp' = [resp EXCEPT ![i] = o]
         /\ result' = [result EXCEPT
                         ![i] = ResultAtFailure(lists_data[i], property_list, o)]
    /\ attempts' = [attempts EXCEPT ![i].gets = @ + 1]
    /\ pc' = [pc EXCEPT ![i] = AfterFailedFetch]
    /\ UNCHANGED << inputVars, clock, rateVars, catalogueVars, mainVars,
                    logVars >>

\* Mutant of LogLockFree: the lock excludes nobody.
LogLockFree_Ignored == TRUE

\* log_lock can be acquired.
LogLockFree == log_lock = 0

\* log_error: "with log_lock:" entered.
LogLock(i) ==
    /\ pc[i] = "log_wait"
    /\ LogLockFree
    /\ log_lock' = i
    /\ pc' = [pc EXCEPT ![i] = "log_cs"]
    /\ UNCHANGED << inputVars, attempts, clock, rateVars, catalogueVars,
                    mainVars, resp, result, log_file >>

\* log_error appends its row and leaves the lock; check_single_list returns
\* the ERROR row.
LogWrite(i) ==
    /\ pc[i] = "log_cs"
    /\ log_file' = AppendLog(log_file,
                             LogRow(lists_data[i], StatusCodeArg(resp[i]),
                                    IF resp[i].kind = "api" THEN "API error"
                                    ELSE "RequestException"))
    /\ log_lock' = 0
    /\ result' = [result EXCEPT
                    ![i] = CheckFailed(lists_data[i], property_list, resp[i])]
    /\ pc' = [pc EXCEPT ![i] = "done"]
    /\ UNCHANGED << inputVars, attempts, clock, rateVars, catalogueVars,
                    mainVars, resp >>

\* ------------------------------------------------------------------------
\* 6) Main routine
\* ------------------------------------------------------------------------
\* header = ["Name", "ListId"] + property_list
HeaderRow(prop_list) == <<"Name", "ListId">> \o prop_list

\* [list_name, list_id] + row_values
MatrixRow(r) == <<r.list_name, r.list_id>> \o r.row_values

\* Mutant of WriteRow: the row is put before the rows already written.
WriteRow_AtFront(rows, row) == <<row>> \o rows

\* writer.writerow(...) adds one row at the end of the file.
WriteRow(rows, row) == Append(rows, row)

\* The futures as_completed has handed out so far.
Yielded == { yielded[k] : k \in 1..Len(yielded) }

\* Mutant of AllCollected: the loop over as_completed stops after one future.
AllCollected_StopsEarly == yielded # << >>

\* as_completed(futures) is exhausted: every future has been handed out.
AllCollected == Yielded = Tasks

\* The future of task i is finished.
Completed(i) == result[i].kind # "pending"

\* load_list_ids and load_properties have run, and the header row is written.
MainLoad ==
    /\ main_pc = "load"
    /\ LET loaded == load_properties(property_file) IN
         /\ property_list' = loaded.prop_list
         /\ property_set' = loaded.prop_set
         /\ header' = HeaderRow(loaded.prop_list)
    /\ main_pc' = IF Tasks = {} THEN "collect" ELSE "submit"
    /\ UNCHANGED << inputVars, attempts, clock, rateVars, submitted, yielded,
                    cur, write_lock, matrix, pc, resp, result, logVars >>

\* fut = executor.submit(check_single_list, item, ...); futures.append(fut)
MainSubmit ==
    /\ main_pc = "submit"
    /\ submitted < Len(lists_data)
    /\ submitted' = submitted + 1
    /\ pc' = [pc EXCEPT ![submitted + 1] = "queued"]
    /\ main_pc' = IF submitted + 1 = Len(lists_data) THEN "collect" ELSE "submit"
    /\ UNCHANGED << inputVars, attempts, clock, rateVars, catalogueVars, yielded,
                    cur, write_lock, matrix, resp, result, logVars >>

\* as_completed yields a finished future whose result() returns; main enters
\* "with write_lock:".
MainTakeResult(i) ==
    /\ main_pc = "collect"
    /\ i \in Tasks \ Yielded
    /\ Completed(i)
    /\ result[i].kind = "value"
    /\ yielded' = Append(yielded, i)
    /\ cur' = result[i]
    /\ write_lock' = TRUE
    /\ main_pc' = "write"
    /\ UNCHANGED << inputVars, attempts, clock, rateVars, catalogueVars,
                    submitted, matrix, pc, resp, result, logVars >>

\* as_completed yields a finished future whose result() re-raises the
\* exception of the call: main leaves the loop.
MainResultRaises(i) ==
    /\ main_pc = "collect"
    /\ i \in Tasks \ Yielded
    /\ Completed(i)
    /\ result[i].kind = "exception"
    /\ yielded' = Append(yielded, i)
    /\ main_pc' = "raising"
    /\ UNCHANGED << inputVars, attempts, clock, rateVars, catalogueVars,
                    submitted, cur, write_lock, matrix, pc, resp, result,
                    logVars >>

\* writer.writerow([list_name, list_id] + row_values); out_f.flush()
MainWriteRow ==
    /\ main_pc = "write"
    /\ matrix' = WriteRow(matrix, MatrixRow(cur))
    /\ write_lock' = FALSE
    /\ cur' = NoRow
    /\ main_pc' = "collect"
    /\ UNCHANGED << inputVars, attempts, clock, rateVars, catalogueVars,
                    submitted, yielded, pc, resp, result, logVars >>

\* The loop is over, the executor and the file are closed, main returns.
MainReturn ==
    /\ main_pc = "collect"
    /\ AllCollected
    /\ main_pc' = "returned"
    /\ UNCHANGED << inputVars, attempts, clock, rateVars, catalogueVars,
                    submitted, yielded, cur, write_lock, matrix, pc, resp,
                    result, logVars >>

\* The exception leaves "with ThreadPoolExecutor": shutdown(wait=True) lets
\* the pool finish every submitted call, then the exception leaves main.
MainCrash ==
    /\ main_pc = "raising"
    /\ \A i \in Tasks : pc[i] = "done"
    /\ main_pc' = "crashed"
    /\ UNCHANGED << inputVars, attempts, clock, rateVars, catalogueVars,
                    submitted, yielded, cur, write_lock, matrix, pc, resp,
                    result, logVars >>

\* ------------------------------------------------------------------------
\* Specifications
\* ------------------------------------------------------------------------
\* The state when main starts, for a property file among files, n lists and
\* a server that answers with one of outs.
InitWith(files, outs, n) ==
    /\ property_file \in files
    /\ lists_data = [i \in 1..n |-> Item(i)]
    /\ outcomes = outs
    /\ clock = 0
    /\ request_timestamps = << >>
    /\ rate_lock = 0
    /\ now = [i \in 1..n |-> 0]
    /\ admitted = << >>
    /\ attempts = [i \in 1..n |-> NoAttempt]
    /\ property_list = << >>
    /\ property_set = {}
    /\ header = << >>
    /\ main_pc = "load"
    /\ submitted = 0
    /\ pc = [i \in 1..n |-> "unsubmitted"]
    /\ resp = [i \in 1..n |-> NoResponse]
    /\ result = [i \in 1..n |-> Pending]
    /\ yielded = << >>
    /\ cur = NoRow
    /\ write_lock = FALSE
    /\ matrix = << >>
    /\ log_lock = 0
    /\ log_file = << >>

Next ==
    \/ MainLoad
    \/ MainSubmit
    \/ \E i \in Tasks : WorkerStart(i)
    \/ \E i \in Tasks : RateLock(i)
    \/ \E i \in Tasks : RateCritical(i)
    \/ \E i \in Tasks : FetchOk(i)
    \/ \E i \in Tasks : FetchApiError(i)
    \/ \E i \in Tasks : FetchTransportError(i)
    \/ \E i \in Tasks : LogLock(i)
    \/ \E i \in Tasks : LogWrite(i)
    \/ \E i \in Tasks : MainTakeResult(i)
    \/ \E i \in Tasks : MainResultRaises(i)
    \/ MainWriteRow
    \/ MainReturn
    \/ MainCrash
    \/ Tick

\* A batch of NumObjects lists.
BatchFiles == { <<NameA, NameB>> }
BatchOutcomes ==
    Failures \cup { Success(DocOf(Chain(2))), Success(EmptyDict),
                    Success(JDict([list |-> JNull])) }
Init == InitWith(BatchFiles, BatchOutcomes, NumObjects)
Spec == Init /\ [][Next]_vars

\* One list, any document of the families above.
MatchFiles == { <<NameA, NameB>>, <<NameB, NameA, NameB>>, <<NameAB>> }
AllDocs ==
    { DocOf(t) : t \in WellFormedTrees } \cup EmptyStructureDocs \cup OddShapeDocs
    \cup {DeepDoc}
MatchOutcomes == Failures \cup { Success(d) : d \in AllDocs }
InitMatch == InitWith(MatchFiles, MatchOutcomes, 1)
SpecMatch == InitMatch /\ [][Next]_vars

\* One list, any property file of at most MaxLines lines of at most
\* MaxLineLen characters.
LoadFiles == SeqsUpTo(SeqsUpTo(Chars, MaxLineLen), MaxLines)
LoadOutcomes ==
    Failures \cup { Success(DocOf(Chain(2))), Success(JDict([list |-> JNull])) }
InitLoad == InitWith(LoadFiles, LoadOutcomes, 1)
NextLoad == MainLoad
SpecLoad == InitLoad /\ [][NextLoad]_vars

\* The rate limiter alone: NumCallers pool threads call wait_for_rate_slot
\* again and again once MaxRequests - 1 admissions have been recorded at
\* instant 0, until MaxExtraCalls further admissions have been recorded.
PreAdmitted == [k \in 1..(MaxRequests - 1) |-> 0]
InitRate ==
    /\ property_file = << >>
    /\ lists_data = << >>
    /\ outcomes = {}
    /\ clock = 0
    /\ request_timestamps = PreAdmitted
    /\ rate_lock = 0
    /\ now = [i \in 1..NumCallers |-> 0]
    /\ admitted = PreAdmitted
    /\ attempts = [i \in 1..NumCallers |-> NoAttempt]
    /\ property_list = << >>
    /\ property_set = {}
    /\ header = << >>
    /\ main_pc = "collect"
    /\ submitted = 0
    /\ pc = [i \in 1..NumCallers |-> "rate_wait"]
    /\ resp = [i \in 1..NumCallers |-> NoResponse]
    /\ result = [i \in 1..NumCallers |-> Pending]
    /\ yielded = << >>
    /\ cur = NoRow
    /\ write_lock = FALSE
    /\ matrix = << >>
    /\ log_lock = 0
    /\ log_file = << >>

\* The thread, back from wait_for_rate_slot, is given its next list and calls
\* wait_for_rate_slot again.
CallAgain(i) ==
    /\ pc[i] = "get"
    /\ Len(admitted) < Len(PreAdmitted) + MaxExtraCalls
    /\ pc' = [pc EXCEPT ![i] = "rate_wait"]
    /\ UNCHANGED << inputVars, attempts, clock, rateVars, catalogueVars,
                    mainVars, resp, result, logVars >>

NextRate ==
    \/ \E i \in Tasks : RateLock(i)
    \/ \E i \in Tasks : RateCritical(i)
    \/ \E i \in Tasks : CallAgain(i)
    \/ Tick
SpecRate == InitRate /\ [][NextRate]_vars

\* The same, with time advancing (as far as the last instant sampled) and
\* every caller that can take its next step in wait_for_rate_slot taking it
\* in the end. Nothing forces a thread to call again.
FairRate ==
    /\ WF_vars(Tick)
    /\ \A i \in 1..NumCallers : WF_vars(RateLock(i)) /\ WF_vars(RateCritical(i))
SpecRateFair == InitRate /\ [][NextRate]_vars /\ FairRate

\* The end of a long batch: the last NumPoolObjects lists are queued in the
\* executor. Of the PoolPreDone lists before them, all fetched at instant 0,
\* only what a worker can read is kept: their admission timestamps. Their
\* futures, rows and positions are left out, and so is main's loop over
\* as_completed, which no worker depends on.
PoolPreDone == MaxRequests - max_workers
PoolFiles == <<NameA, NameB>>
InitPool ==
    /\ property_file = PoolFiles
    /\ lists_data = [i \in 1..NumPoolObjects |-> Item(i)]
    /\ outcomes = {Success(EmptyDict)}
    /\ clock = 0
    /\ request_timestamps = [k \in 1..PoolPreDone |-> 0]
    /\ rate_lock = 0
    /\ now = [i \in 1..NumPoolObjects |-> 0]
    /\ admitted = [k \in 1..PoolPreDone |-> 0]
    /\ attempts = [i \in 1..NumPoolObjects |-> NoAttempt]
    /\ property_list = load_properties(PoolFiles).prop_list
    /\ property_set = load_properties(PoolFiles).prop_set
    /\ header = HeaderRow(load_properties(PoolFiles).prop_list)
    /\ main_pc = "collect"
    /\ submitted = NumPoolObjects
    /\ pc = [i \in 1..NumPoolObjects |-> "queued"]
    /\ resp = [i \in 1..NumPoolObjects |-> NoResponse]
    /\ result = [i \in 1..NumPoolObjects |-> Pending]
    /\ yielded = << >>
    /\ cur = NoRow
    /\ write_lock = FALSE
    /\ matrix = << >>
    /\ log_lock = 0
    /\ log_file = << >>

NextPool ==
    \/ \E i \in Tasks : WorkerStart(i)
    \/ \E i \in Tasks : RateLock(i)
    \/ \E i \in Tasks : RateCritical(i)
    \/ \E i \in Tasks : FetchOk(i)
    \/ Tick
SpecPool == InitPool /\ [][NextPool]_vars

\* ------------------------------------------------------------------------
\* Properties
\* ------------------------------------------------------------------------
\* Admissions recorded within the trailing window at the current instant.
InWindow == { k \in 1..Len(admitted) : clock - admitted[k] <= WindowSeconds }

\* C1: at every instant at most MaxRequests (100) of the admission
\* timestamps recorded by wait_for_rate_slot lie within the trailing window
\* of WindowSeconds (10 s), for the clock never running backwards.
C1_RateWindowBound == Cardinality(InWindow) <= MaxRequests

\* The window is full of admissions exactly one window old, and a caller has
\* been turned away and sleeps.
C1_Witness ==
    /\ clock = WindowSeconds
    /\ Cardinality(InWindow) = MaxRequests
    /\ \E i \in Tasks : pc[i] = "rate_sleep"

\* The data rows written for list i.
RowsOf(i) ==
    { k \in 1..Len(matrix) :
        matrix[k][1] = lists_data[i].name /\ matrix[k][2] = lists_data[i].listId }

EveryListHasOneRow ==
    /\ Len(matrix) = Len(lists_data)
    /\ \A i \in Tasks : Cardinality(RowsOf(i)) = 1

\* C2: when main returns, the matrix holds exactly one data row for every
\* list of the input and no other data row.
C2_ExactlyOneRowPerObject == main_pc = "returned" => EveryListHasOneRow

\* main has returned after writing a TRUE/empty row and an ERROR row.
C2_Witness ==
    /\ main_pc = "returned"
    /\ Len(matrix) >= 2
    /\ \E k \in 1..Len(matrix) : matrix[k][3] = "ERROR"
    /\ \E k \in 1..Len(matrix) : matrix[k][3] = "TRUE"

C4_BatchAlwaysCompletes ==
    main_pc \in {"returned", "crashed"} =>
        (main_pc = "returned" /\ EveryListHasOneRow)

\* The branch at response["list"]["filterBranch"], JNull when there is none.
TopBranchOf(doc) ==
    IF /\ doc.t = "dict"
       /\ "list" \in DOMAIN doc.kv
       /\ doc.kv["list"].t = "dict"
       /\ "filterBranch" \in DOMAIN doc.kv["list"].kv
    THEN doc.kv["list"].kv["filterBranch"]
    ELSE JNull

RECURSIVE NodeAt(_, _)
\* The branch reached from node by taking, at each level, the sub-branch of
\* filterBranches that path names; JNull when there is none.
NodeAt(node, path) ==
    IF path = << >> THEN node
    ELSE IF /\ node.t = "dict"
            /\ "filterBranches" \in DOMAIN node.kv
            /\ node.kv["filterBranches"].t = "list"
            /\ Head(path) <= Len(node.kv["filterBranches"].items)
         THEN NodeAt(node.kv["filterBranches"].items[Head(path)], Tail(path))
         ELSE JNull

Paths == SeqsUpTo(1..MaxFanout, RecursionLimit)

\* node holds a leaf condition with filterType "PROPERTY" and this name.
HasPropertyLeaf(node, name) ==
    /\ node.t = "dict"
    /\ "filters" \in DOMAIN node.kv
    /\ node.kv["filters"].t = "list"
    /\ \E k \in 1..Len(node.kv["filters"].items) :
          LET f == node.kv["filters"].items[k] IN
          /\ f.t = "dict"
          /\ {"filterType", "property"} \subseteq DOMAIN f.kv
          /\ f.kv["filterType"] = JStr(PROPERTY)
          /\ f.kv["property"] = JStr(name)

\* Some PROPERTY leaf with this name occurs at some depth of the filter tree.
OccursInTree(doc, name) ==
    \E path \in Paths : HasPropertyLeaf(NodeAt(TopBranchOf(doc), path), name)

\* C5: for a list whose fetch succeeded and whose row was built, the cell of
\* every catalogue field is "TRUE" if and only if a leaf with filterType
\* "PROPERTY" and that name occurs at some depth of the filter tree, and is
\* empty otherwise.
C5_FoundIffPropertyLeaf ==
    \A i \in Tasks :
        (resp[i].kind = "ok" /\ result[i].kind = "value") =>
            /\ DOMAIN result[i].row_values = DOMAIN property_list
            /\ \A k \in DOMAIN property_list :
                  result[i].row_values[k] =
                      IF OccursInTree(resp[i].doc, property_list[k])
                      THEN "TRUE" ELSE ""

\* A row with a TRUE cell and an empty cell, for a tree whose only PROPERTY
\* leaf of the found name lies two levels below the top branch.
C5_Witness ==
    \E i \in Tasks :
        /\ resp[i].kind = "ok"
        /\ result[i].kind = "value"
        /\ \E k1, k2 \in DOMAIN result[i].row_values :
              /\ result[i].row_values[k1] = "TRUE"
              /\ result[i].row_values[k2] = ""
              /\ \A path \in Paths :
                    HasPropertyLeaf(NodeAt(TopBranchOf(resp[i].doc), path),
                                    property_list[k1]) => Len(path) = 2

\* The rows of the error log for list i.
LogRowsOf(i) ==
    { k \in 1..Len(log_file) :
        /\ log_file[k].list_name = lists_data[i].name
        /\ log_file[k].list_id = lists_data[i].listId }

\* C6: when main is over, a list whose fetch failed has ERROR in every
\* field cell of its row and exactly one row in the error log, and a list
\* whose fetch succeeded has no row in the error log; when main has
\* returned, the row of every failed list is there.
C6_ErrorRowsAndLog ==
    main_pc \in {"returned", "crashed"} =>
        \A i \in Tasks :
            /\ resp[i].kind \in {"api", "transport"} =>
                  /\ main_pc = "returned" => RowsOf(i) # {}
                  /\ \A k \in RowsOf(i) :
                        /\ Len(matrix[k]) = 2 + Len(property_list)
                        /\ \A c \in 3..Len(matrix[k]) : matrix[k][c] = "ERROR"
                  /\ Cardinality(LogRowsOf(i)) = 1
            /\ resp[i].kind = "ok" => LogRowsOf(i) = {}

\* main has returned from a batch with a transport failure and a success.
C6_Witness ==
    /\ main_pc = "returned"
    /\ \E i, j \in Tasks : resp[i].kind = "transport" /\ resp[j].kind = "ok"
    /\ Len(log_file) = 1

\* C7: every row check_single_list returns has one cell per catalogue entry,
\* in catalogue order (equal names get equal cells), and is made of
\* "TRUE"/empty cells only after a 2xx response and of "ERROR" cells only
\* after a failure.
C7_RowShape ==
    \A i \in Tasks :
        result[i].kind = "value" =>
            LET row == result[i].row_values IN
            /\ Len(row) = Len(property_list)
            /\ \/ resp[i].kind = "ok" /\ \A k \in DOMAIN row : row[k] \in {"TRUE", ""}
               \/ resp[i].kind # "ok" /\ \A k \in DOMAIN row : row[k] = "ERROR"
            /\ \A k1, k2 \in DOMAIN row :
                  property_list[k1] = property_list[k2] => row[k1] = row[k2]

\* An ERROR row for a catalogue of three entries.
C7_Witness ==
    \E i \in Tasks :
        /\ result[i].kind = "value"
        /\ resp[i].kind = "api"
        /\ Len(property_list) = 3
        /\ result[i].row_values = <<"ERROR", "ERROR", "ERROR">>

\* C8: a list whose filter tree is nested deeper than the traversal can
\* handle is reported as a data error: its call returns an ERROR row and
\* main does not end with an exception.
C8_DeepTreeIsDataError ==
    \A i \in Tasks :
        (resp[i].kind = "ok" /\ resp[i].doc = DeepDoc) =>
            /\ result[i].kind = "value"
            /\ result[i].row_values = ErrorRow(property_list)
            /\ main_pc \notin {"raising", "crashed"}

\* The documents C9 names whose whole filter tree is missing, null or empty.
WholeTreeEmptyDocs ==
    { EmptyDict, JDict([list |-> JNull]), JDict([list |-> EmptyDict]),
      DocOf(JNull), DocOf(EmptyDict) }

\* C9: a 2xx document whose filter structure is missing, null or empty is
\* no error: the call returns a row of empty cells and nothing is logged.
C9_EmptyStructureIsNoError ==
    \A i \in Tasks :
        (resp[i].kind = "ok" /\ resp[i].doc \in WholeTreeEmptyDocs) =>
            /\ result[i].kind = "value"
            /\ \A k \in DOMAIN result[i].row_values : result[i].row_values[k] = ""
            /\ LogRowsOf(i) = {}

\* C10: the catalogue load_properties returns names no field twice, and the
\* header has 2 + (number of distinct names) columns.
C10_CatalogueUnique ==
    main_pc # "load" =>
        /\ \A k1, k2 \in DOMAIN property_list :
              k1 # k2 => property_list[k1] # property_list[k2]
        /\ Len(header) = 2 + Cardinality(property_set)

\* ------------------------------------------------------------------------
\* C11: every row of the error log belongs to a list whose GET failed, and
\* its StatusCode is 0 when the GET raised (no response) and the status code
\* of the response when the response was not 2xx; so a row of a non-2xx
\* response carries 0 only if the response did, and a row of a transport
\* failure never carries a non-zero code.
\* ------------------------------------------------------------------------
C11_LoggedStatusCode ==
    \A k \in 1..Len(log_file) :
      \E i \in Tasks :
        /\ log_file[k].list_name = lists_data[i].name
        /\ log_file[k].list_id = lists_data[i].listId
        /\ resp[i].kind \in {"transport", "api"}
        /\ resp[i].kind = "transport" => log_file[k].status_code = 0
        /\ resp[i].kind = "api" => log_file[k].status_code = resp[i].status

\* Both kinds of failure have been logged in one run.
C11_Witness ==
    /\ \E k \in 1..Len(log_file), i \in Tasks :
         /\ k \in LogRowsOf(i)
         /\ resp[i].kind = "transport"
         /\ log_file[k].status_code = 0
    /\ \E k \in 1..Len(log_file), i \in Tasks :
         /\ k \in LogRowsOf(i)
         /\ resp[i] = ApiFailure(500)
         /\ log_file[k].status_code = 500

\* ------------------------------------------------------------------------
\* C12: the read-evict-append sequence of wait_for_rate_slot is one critical
\* section: at most one worker is inside it, the worker inside it is the
\* holder of rate_lock, no worker holds rate_lock while it sleeps or while
\* its GET is in progress, and request_timestamps changes only in a step of
\* the holder that also releases the lock.
\* ------------------------------------------------------------------------
InRateSection == { i \in Tasks : pc[i] = "rate_cs" }

RateSectionExclusive ==
    /\ Cardinality(InRateSection) <= 1
    /\ rate_lock \in Tasks \cup {0}
    /\ \A i \in Tasks : (pc[i] = "rate_cs") <=> (rate_lock = i)
    /\ \A i \in Tasks : pc[i] \in {"rate_sleep", "get"} => rate_lock # i

RateSectionAtomic ==
    request_timestamps' # request_timestamps =>
        /\ rate_lock \in Tasks
        /\ pc[rate_lock] = "rate_cs"
        /\ pc'[rate_lock] \in {"get", "rate_sleep"}
        /\ rate_lock' = 0

C12_RateLockCriticalSection == [] RateSectionExclusive /\ [][RateSectionAtomic]_vars

\* One caller is inside the critical section while another sleeps.
C12_Witness ==
    \E i, j \in Tasks :
      /\ i # j
      /\ pc[i] = "rate_cs"
      /\ rate_lock = i
      /\ pc[j] = "rate_sleep"

\* ------------------------------------------------------------------------
\* C13: at every instant at most max_workers (5) GETs are in flight, and at
\* the same instant at most MaxRequests admissions lie within the trailing
\* window, for a batch of more lists than the pool has threads.
\* ------------------------------------------------------------------------
InFlight == { i \in Tasks : pc[i] = "get" }

C13_InFlightAndWindowBound ==
    /\ Cardinality(InFlight) <= max_workers
    /\ Cardinality(Running) <= max_workers
    /\ Cardinality(InWindow) <= MaxRequests

\* Both bounds are reached at once: five GETs in flight, the window full, and
\* a list waiting in the executor's queue.
C13_Witness ==
    /\ Cardinality(InFlight) = max_workers
    /\ Cardinality(InWindow) = MaxRequests
    /\ \E i \in Tasks : pc[i] = "queued"

\* ------------------------------------------------------------------------
\* C14: wait_for_rate_slot only delays: with time advancing and every caller
\* scheduled in the end, a caller that is inside wait_for_rate_slot (about
\* to take the lock, inside the critical section, or asleep after a full
\* window) is admitted and returns, while the other callers compete.
\* ------------------------------------------------------------------------
C14_EveryCallerAdmitted ==
    \A i \in 1..NumCallers :
      (pc[i] \in {"rate_wait", "rate_cs", "rate_sleep"}) ~> (pc[i] = "get")

\* A caller was admitted after the window had been full, while another one,
\* turned away, still sleeps.
C14_Witness ==
    /\ Len(admitted) > MaxRequests
    /\ \E i, j \in Tasks :
         /\ i # j
         /\ pc[i] = "get"
         /\ attempts[i].admissions >= 2
         /\ pc[j] = "rate_sleep"
         /\ attempts[j].admissions = 0

\* ------------------------------------------------------------------------
\* C15: each list is attempted exactly once: its call records at most one
\* admission and issues at most one GET, the GET is issued only once the
\* admission is recorded, a call that has left the GET (failed or not) has
\* recorded exactly one admission and issued exactly one GET, and when main
\* is over the admissions and the GETs are each as many as the lists.
\* ------------------------------------------------------------------------
RECURSIVE TotalGets(_)
TotalGets(n) == IF n = 0 THEN 0 ELSE attempts[n].gets + TotalGets(n - 1)

C15_AttemptedExactlyOnce ==
    /\ \A i \in Tasks :
         /\ attempts[i].admissions <= 1
         /\ attempts[i].gets <= attempts[i].admissions
         /\ pc[i] = "get" => attempts[i] = [admissions |-> 1, gets |-> 0]
         /\ pc[i] \in {"log_wait", "log_cs", "done"} =>
              attempts[i] = [admissions |-> 1, gets |-> 1]
         /\ pc[i] \in {"unsubmitted", "queued", "rate_wait", "rate_cs",
                       "rate_sleep"} => attempts[i] = NoAttempt
    /\ main_pc \in {"returned", "crashed"} =>
         /\ Len(admitted) = Len(lists_data)
         /\ TotalGets(Len(lists_data)) = Len(lists_data)

\* main has returned after a batch in which a GET failed: one admission and
\* one GET per list, the failed one included.
C15_Witness ==
    /\ main_pc = "returned"
    /\ Len(lists_data) >= 2
    /\ \E i \in Tasks : resp[i].kind \in {"transport", "api"}
    /\ Len(admitted) = Len(lists_data)
    /\ \A i \in Tasks : attempts[i] = [admissions |-> 1, gets |-> 1]

\* ------------------------------------------------------------------------
\* C16: at most one worker is inside the append of log_error and it is the
\* holder of log_lock; write_lock is held exactly while main writes a row;
\* every row of the error log and of the matrix is complete; and each file
\* changes only in a step of the holder of its lock that adds exactly one
\* row at the end and releases the lock.
\* ------------------------------------------------------------------------
InLogSection == { i \in Tasks : pc[i] = "log_cs" }

WritesExclusive ==
    /\ Cardinality(InLogSection) <= 1
    /\ log_lock \in Tasks \cup {0}
    /\ \A i \in Tasks : (pc[i] = "log_cs") <=> (log_lock = i)
    /\ write_lock <=> (main_pc = "write")
    /\ \A k \in 1..Len(log_file) :
         DOMAIN log_file[k] = {"list_name", "list_id", "status_code", "error_msg"}
    /\ \A k \in 1..Len(matrix) : Len(matrix[k]) = 2 + Len(property_list)

OneRowPerWrite ==
    /\ log_file' # log_file =>
         /\ log_lock \in Tasks
         /\ log_lock' = 0
         /\ Len(log_file') = Len(log_file) + 1
         /\ SubSeq(log_file', 1, Len(log_file)) = log_file
         /\ log_file'[Len(log_file')].list_name = lists_data[log_lock].name
    /\ matrix' # matrix =>
         /\ write_lock
         /\ ~write_lock'
         /\ Len(matrix') = Len(matrix) + 1
         /\ SubSeq(matrix', 1, Len(matrix)) = matrix

C16_WritesNeverInterleave == [] WritesExclusive /\ [][OneRowPerWrite]_vars

\* One worker is inside the append of log_error while another waits for
\* log_lock.
C16_Witness ==
    \E i, j \in Tasks :
      /\ i # j
      /\ pc[i] = "log_cs"
      /\ log_lock = i
      /\ pc[j] = "log_wait"

\* ------------------------------------------------------------------------
\* C17: the row of a list is a function of the catalogue and of the outcome
\* of its own GET, in every reachable state of every run, whatever the other
\* lists' outcomes, the scheduling and the waits: the future of a finished
\* call, and the row main writes from it, carry the list's own name and id
\* and the cells that the catalogue and its own response give; two lists
\* with the same outcome end alike.
\* ------------------------------------------------------------------------
OwnRowValues(response, prop_list, prop_set) ==
    IF response.kind # "ok" THEN [k \in DOMAIN prop_list |-> "ERROR"]
    ELSE RowValues(check_list_properties(response.doc, prop_set).found, prop_list)

C17_RowDependsOnOwnOutcomeOnly ==
    /\ \A i \in Tasks :
         result[i].kind = "value" =>
           /\ result[i].list_name = lists_data[i].name
           /\ result[i].list_id = lists_data[i].listId
           /\ result[i].row_values =
                OwnRowValues(resp[i], property_list, property_set)
    /\ \A i, j \in Tasks :
         (result[i].kind # "pending" /\ result[j].kind # "pending"
            /\ resp[i] = resp[j]) =>
           /\ result[i].kind = result[j].kind
           /\ result[i].kind = "value" =>
                /\ result[i].row_values = result[j].row_values
                /\ result[i].error_msg = result[j].error_msg
    /\ \A k \in 1..Len(matrix) :
         matrix[k] = <<lists_data[yielded[k]].name, lists_data[yielded[k]].listId>>
                       \o result[yielded[k]].row_values

\* Two lists of one batch, answered with different documents: the row of
\* the first one handed out has a TRUE cell, the row of the other has none.
C17_Witness ==
    /\ Len(yielded) = 2
    /\ resp[yielded[1]] = Success(DocOf(Chain(2)))
    /\ resp[yielded[2]] = Success(EmptyDict)
    /\ Len(matrix) = 2
    /\ \E k \in DOMAIN property_list : result[yielded[1]].row_values[k] = "TRUE"
    /\ \A k \in DOMAIN property_list : result[yielded[2]].row_values[k] = ""

\* ------------------------------------------------------------------------
\* C18: the matcher is a pure function of the document and the target set:
\* calling check_list_properties again, in any later state, on the document
\* a worker received and on the target set gives what the worker's own call
\* gave (the same cells, or the same exception); the matched set is a subset
\* of the target set; and no step changes a document received, the target
\* set once loaded, or the result of a call that has finished.
\* ------------------------------------------------------------------------
SecondCallAgrees ==
    \A i \in Tasks :
      resp[i].kind = "ok" =>
        LET again == check_list_properties(resp[i].doc, property_set) IN
        /\ again.found \subseteq property_set
        /\ result[i].kind = "value" =>
             /\ again.exc = NoException
             /\ result[i].row_values = RowValues(again.found, property_list)
        /\ result[i].kind = "exception" => again.exc = result[i].exc

CallLeavesInputsAlone ==
    /\ main_pc # "load" => property_set' = property_set
    /\ \A i \in Tasks :
         /\ resp[i].kind = "ok" => resp'[i] = resp[i]
         /\ result[i].kind # "pending" => result'[i] = result[i]

NotExpired(ts, t) ==
    LET Keep(e) == ~((t - e) > WindowSeconds) IN SelectSeq(ts, Keep)

TimestampsOrdered ==
    /\ Len(request_timestamps) <= MaxRequests
    /\ \A k \in 1..(Len(request_timestamps) - 1) :
         request_timestamps[k] <= request_timestamps[k + 1]

CriticalSectionPass ==
    \A i \in Tasks :
      (pc[i] = "rate_cs" /\ pc'[i] # "rate_cs") =>
        /\ pc'[i] = "rate_sleep" =>
             /\ Len(NotExpired(request_timestamps, now[i])) = MaxRequests
             /\ request_timestamps' = NotExpired(request_timestamps, now[i])
             /\ admitted' = admitted
        /\ pc'[i] = "get" =>
             /\ Len(NotExpired(request_timestamps, now[i])) < MaxRequests
             /\ request_timestamps' =
                  Append(NotExpired(request_timestamps, now[i]), now[i])

C19_WindowListOrdered == [] TimestampsOrdered /\ [][CriticalSectionPass]_vars

\* After a full window and an eviction that removed some entries and kept
\* another: the list holds two different instants, and a caller that found
\* the window full still sleeps.
C19_Witness ==
    /\ request_timestamps = <<WindowSeconds, WindowSeconds + 1>>
    /\ Len(admitted) = MaxRequests + 1
    /\ \E i \in Tasks : pc[i] = "rate_sleep"

\* ------------------------------------------------------------------------
\* C20: the error log is appended to before the ERROR row exists: every
\* ERROR row in the matrix, and already every ERROR result a call has
\* returned, belongs to a list whose row is in the error log.
\* ------------------------------------------------------------------------
IsErrorRow(row) == \E c \in 3..Len(row) : row[c] = "ERROR"

C20_LogBeforeErrorRow ==
    /\ \A k \in 1..Len(matrix) :
         IsErrorRow(matrix[k]) =>
           \E r \in 1..Len(log_file) :
             /\ log_file[r].list_name = matrix[k][1]
             /\ log_file[r].list_id = matrix[k][2]
    /\ \A i \in Tasks :
         (result[i].kind = "value" /\ result[i].error_msg # "None") =>
           LogRowsOf(i) # {}

\* The ERROR row of a list is in the matrix, its log row is in the log, and
\* another list is still being processed.
C20_Witness ==
    \E i, j \in Tasks :
      /\ i # j
      /\ \E k \in 1..Len(matrix) :
           /\ IsErrorRow(matrix[k])
           /\ matrix[k][1] = lists_data[i].name
      /\ LogRowsOf(i) # {}
      /\ pc[j] \in {"rate_wait", "rate_cs", "get", "log_wait", "log_cs"}

====
